---- MODULE Spec2Model ----
(***************************************************************************)
(* Limit order book of HFT-capstone-project (order_book.cpp, order_book.h  *)
(* as carried at the end of main.cpp).  Prices are ticks (integers); the   *)
(* two std::map comparators are modelled by Max / Min of the key set.      *)
(* Order* is a slot of the MemoryPool; a std::list iterator is modelled by *)
(* the slot stored in the list node it designates (list nodes are stable). *)
(***************************************************************************)
EXTENDS Integers, Sequences, FiniteSets, TLC

\* ---- bounds of the model ----
MaxId == 3
MaxPrice == 2
MaxQty == 2
MaxTs == 2
MaxAdded == 3
MaxDepth == 2
\* MemoryPool<Order, BlockSize>: the template parameter, scaled down
BlockSize == 2

Ids == 1..MaxId
Prices == 1..MaxPrice
Quantities == 1..MaxQty
Timestamps == 1..MaxTs
Depths == 0..MaxDepth

VARIABLES bids_, asks_, order_lookup_, mem, free_list_, block_count_,
          total_orders_added_, total_orders_cancelled_, total_orders_matched_,
          trades, ret, op, out, arrivals, emitted, fully_filled

vars == <<bids_, asks_, order_lookup_, mem, free_list_, block_count_,
          total_orders_added_, total_orders_cancelled_, total_orders_matched_,
          trades, ret, op, out, arrivals, emitted, fully_filled>>

\* ---- helpers on finite maps and sequences ----
MapErase(f, k) == [x \in DOMAIN f \ {k} |-> f[x]]

MapPut(f, k, v) == [x \in DOMAIN f \cup {k} |-> IF x = k THEN v ELSE f[x]]

SetMax(S) == CHOOSE x \in S : \A y \in S : x >= y

SetMin(S) == CHOOSE x \in S : \A y \in S : x <= y

Min2(a, b) == IF a <= b THEN a ELSE b

Range(s) == {s[i] : i \in DOMAIN s}

RECURSIVE SeqSum(_)
SeqSum(s) == IF s = <<>> THEN 0 ELSE Head(s) + SeqSum(Tail(s))

\* ---- Order, PriceLevelData, OrderLocation ----
Order(id, buy, p, qty, ts) ==
    [order_id |-> id, is_buy |-> buy, price |-> p, quantity |-> qty, timestamp_ns |-> ts]

PriceLevelData(p) == [price |-> p, orders |-> <<>>, total_quantity |-> 0]

\* variant: the bid map ordered like the ask map
bids_begin_less(m) == SetMin(DOMAIN m)

\* std::map<double, ..., std::greater<double>>::begin() and std::less ...::begin()
bids_begin(m) == SetMax(DOMAIN m)

\* variant: the ask map ordered like the bid map
asks_begin_greater(m) == SetMax(DOMAIN m)

asks_begin(m) == SetMin(DOMAIN m)

\* the whole object as one value, so that methods are operators on it
Book == [bids_ |-> bids_, asks_ |-> asks_, order_lookup_ |-> order_lookup_,
         mem |-> mem, free_list_ |-> free_list_, block_count_ |-> block_count_,
         total_orders_added_ |-> total_orders_added_,
         total_orders_cancelled_ |-> total_orders_cancelled_,
         total_orders_matched_ |-> total_orders_matched_,
         trades |-> trades, ret |-> ret, op |-> op, out |-> out,
         arrivals |-> arrivals]

\* ---- MemoryPool ----
\* allocate_block: elements 0..BlockSize-1 of the new block are pushed in turn,
\* so the last element ends up at the head of the free list
allocate_block(b) ==
    LET base == b.block_count_ * BlockSize
        pushed == [i \in 1..BlockSize |-> base + BlockSize - i]
    IN [b EXCEPT !.block_count_ = @ + 1, !.free_list_ = pushed \o @]

\* allocate: pops the free head (after growing when the list is empty)
allocate(b) ==
    LET b1 == IF b.free_list_ = <<>> THEN allocate_block(b) ELSE b
    IN [book |-> [b1 EXCEPT !.free_list_ = Tail(@)], element |-> Head(b1.free_list_)]

\* variant: the slot is not pushed on the free list
deallocate_leak(b, element) ==
    [b EXCEPT !.mem = MapErase(@, element)]

\* deallocate: destroys the record and pushes the slot on the free list
deallocate(b, element) ==
    [b EXCEPT !.mem = MapErase(@, element), !.free_list_ = <<element>> \o @]

\* ---- ghost bookkeeping for the emitted trades (not program state) ----
\* slots held by some queue, and the ids of the orders stored there
QueuedSlots(b) ==
    UNION {Range(b.bids_[p].orders) : p \in DOMAIN b.bids_}
      \cup UNION {Range(b.asks_[p].orders) : p \in DOMAIN b.asks_}

RestingIds(b) == {b.mem[s].order_id : s \in QueuedSlots(b)}

ArrivalIndex(b, id) == CHOOSE i \in DOMAIN b.arrivals : b.arrivals[i] = id

\* ids resting at the same side and price as slot s that were enqueued before it
AheadOf(b, s) ==
    {b.mem[t].order_id : t \in {u \in QueuedSlots(b) :
        /\ b.mem[u].is_buy = b.mem[s].is_buy
        /\ b.mem[u].price = b.mem[s].price
        /\ ArrivalIndex(b, b.mem[u].order_id) < ArrivalIndex(b, b.mem[s].order_id)}}

\* ids resting on the side of slot s at a strictly better price
BetterThan(b, s) ==
    {b.mem[t].order_id : t \in {u \in QueuedSlots(b) :
        /\ b.mem[u].is_buy = b.mem[s].is_buy
        /\ IF b.mem[s].is_buy THEN b.mem[u].price > b.mem[s].price
                              ELSE b.mem[u].price < b.mem[s].price}}

\* ---- execute_trade ----
\* variant: the buy order's price is printed
trade_price_buy(buy, sell) == buy.price

\* the price printed on the TRADE line
trade_price(buy, sell) == sell.price

execute_trade(b, buy_order, sell_order, trade_qty, aggressor) ==
    [b EXCEPT !.total_orders_matched_ = @ + 1,
              !.trades = Append(@,
                 [buy_order_id |-> b.mem[buy_order].order_id,
                  sell_order_id |-> b.mem[sell_order].order_id,
                  quantity |-> trade_qty,
                  price |-> trade_price(b.mem[buy_order], b.mem[sell_order]),
                  \* ghost fields
                  aggressor |-> aggressor,
                  buy_price |-> b.mem[buy_order].price,
                  sell_price |-> b.mem[sell_order].price,
                  buy_remaining |-> b.mem[buy_order].quantity,
                  sell_remaining |-> b.mem[sell_order].quantity,
                  buy_ahead |-> AheadOf(b, buy_order),
                  sell_ahead |-> AheadOf(b, sell_order),
                  buy_better |-> BetterThan(b, buy_order),
                  sell_better |-> BetterThan(b, sell_order)])]

\* ---- match_orders ----
\* a fully filled head: drop its locator entry, pop it, release it, and
\* erase the level when its queue became empty
\* variant: the locator entry of a filled bid is kept
pop_filled_bid_keep(b, price, order) ==
    LET b1 == [b EXCEPT !.bids_[price].orders = Tail(@)]
        b2 == deallocate(b1, order)
    IN IF b2.bids_[price].orders = <<>>
       THEN [b2 EXCEPT !.bids_ = MapErase(@, price)] ELSE b2

pop_filled_bid(b, price, order) ==
    LET b1 == [b EXCEPT !.order_lookup_ = MapErase(@, b.mem[order].order_id),
                        !.bids_[price].orders = Tail(@)]
        b2 == deallocate(b1, order)
    IN IF b2.bids_[price].orders = <<>>
       THEN [b2 EXCEPT !.bids_ = MapErase(@, price)] ELSE b2

\* variant: a filled ask is counted as cancelled
pop_filled_ask_counted(b, price, order) ==
    LET b1 == [b EXCEPT !.order_lookup_ = MapErase(@, b.mem[order].order_id),
                        !.asks_[price].orders = Tail(@),
                        !.total_orders_cancelled_ = @ + 1]
        b2 == deallocate(b1, order)
    IN IF b2.asks_[price].orders = <<>>
       THEN [b2 EXCEPT !.asks_ = MapErase(@, price)] ELSE b2

pop_filled_ask(b, price, order) ==
    LET b1 == [b EXCEPT !.order_lookup_ = MapErase(@, b.mem[order].order_id),
                        !.asks_[price].orders = Tail(@)]
        b2 == deallocate(b1, order)
    IN IF b2.asks_[price].orders = <<>>
       THEN [b2 EXCEPT !.asks_ = MapErase(@, price)] ELSE b2

\* variant: the larger of the two remainders is traded
trade_quantity_max(buy_qty, sell_qty) ==
    IF buy_qty >= sell_qty THEN buy_qty ELSE sell_qty

\* variant: one unit is traded at a time
trade_quantity_one(buy_qty, sell_qty) == 1

\* variant: the buy order's whole remainder is traded
trade_quantity_buy(buy_qty, sell_qty) == buy_qty

\* the quantity of one execution
trade_quantity(buy_qty, sell_qty) == Min2(buy_qty, sell_qty)

\* variant: equal prices do not match
no_match_le(best_bid_price, best_ask_price) == best_bid_price <= best_ask_price

\* loop exit test on the two best prices
no_match(best_bid_price, best_ask_price) == best_bid_price < best_ask_price

RECURSIVE match_orders(_, _)
match_orders(b, aggressor) ==
    IF DOMAIN b.bids_ = {} \/ DOMAIN b.asks_ = {} THEN b
    ELSE
      LET best_bid_price == bids_begin(b.bids_)
          best_ask_price == asks_begin(b.asks_)
      IN IF no_match(best_bid_price, best_ask_price) THEN b
         ELSE IF b.bids_[best_bid_price].orders = <<>>
                 \/ b.asks_[best_ask_price].orders = <<>> THEN b
         ELSE
           LET buy_order == Head(b.bids_[best_bid_price].orders)
               sell_order == Head(b.asks_[best_ask_price].orders)
               trade_qty == trade_quantity(b.mem[buy_order].quantity,
                                           b.mem[sell_order].quantity)
               b1 == execute_trade(b, buy_order, sell_order, trade_qty, aggressor)
               b2 == [b1 EXCEPT
                        !.mem[buy_order].quantity = @ - trade_qty,
                        !.mem[sell_order].quantity = @ - trade_qty,
                        !.bids_[best_bid_price].total_quantity = @ - trade_qty,
                        !.asks_[best_ask_price].total_quantity = @ - trade_qty]
               b3 == IF b2.mem[buy_order].quantity = 0
                     THEN pop_filled_bid(b2, best_bid_price, buy_order) ELSE b2
               b4 == IF b3.mem[sell_order].quantity = 0
                     THEN pop_filled_ask(b3, best_ask_price, sell_order) ELSE b3
           IN match_orders(b4, aggressor)

\* ---- add_order ----
\* variant: push_front
push_front(orders, element) == <<element>> \o orders

\* std::list::push_back
push_back(orders, element) == Append(orders, element)

\* find the level, creating it when absent
find_or_emplace(side, price) ==
    IF price \in DOMAIN side THEN side ELSE MapPut(side, price, PriceLevelData(price))

OrderLocation(order, list_iter, is_bid, price) ==
    [order |-> order, list_iter |-> list_iter, is_bid |-> is_bid, price |-> price]

add_order(b, order) ==
    LET a == allocate(b)
        new_order == a.element
        b1 == [a.book EXCEPT !.mem = MapPut(@, new_order, order),
                             !.total_orders_added_ = @ + 1,
                             \* ghost: the order arrives now
                             !.arrivals = Append(SelectSeq(@, LAMBDA x : x # order.order_id),
                                                 order.order_id)]
        b2 == IF order.is_buy
              THEN LET side == find_or_emplace(b1.bids_, order.price)
                   IN [b1 EXCEPT
                        !.bids_ = [side EXCEPT
                            ![order.price].orders = push_back(@, new_order),
                            ![order.price].total_quantity = @ + order.quantity],
                        !.order_lookup_ = MapPut(@, order.order_id,
                            OrderLocation(new_order, new_order, TRUE, order.price))]
              ELSE LET side == find_or_emplace(b1.asks_, order.price)
                   IN [b1 EXCEPT
                        !.asks_ = [side EXCEPT
                            ![order.price].orders = push_back(@, new_order),
                            ![order.price].total_quantity = @ + order.quantity],
                        !.order_lookup_ = MapPut(@, order.order_id,
                            OrderLocation(new_order, new_order, FALSE, order.price))]
    IN [match_orders(b2, order.order_id) EXCEPT !.ret = "void"]

\* ---- remove_order_from_book ----
\* std::list::erase(list_iter)
list_erase(orders, list_iter) == SelectSeq(orders, LAMBDA x : x # list_iter)

\* variant: an emptied level stays in its side index
remove_order_from_book_level_kept(b, loc) ==
    IF loc.is_bid
    THEN IF loc.price \in DOMAIN b.bids_
         THEN LET b1 == [b EXCEPT
                           !.bids_[loc.price].total_quantity = @ - b.mem[loc.order].quantity,
                           !.bids_[loc.price].orders = list_erase(@, loc.list_iter)]
              IN deallocate(b1, loc.order)
         ELSE b
    ELSE IF loc.price \in DOMAIN b.asks_
         THEN LET b1 == [b EXCEPT
                           !.asks_[loc.price].total_quantity = @ - b.mem[loc.order].quantity,
                           !.asks_[loc.price].orders = list_erase(@, loc.list_iter)]
              IN deallocate(b1, loc.order)
         ELSE b

\* variant: the level total is left as it was
remove_order_from_book_total_kept(b, loc) ==
    IF loc.is_bid
    THEN IF loc.price \in DOMAIN b.bids_
         THEN LET b1 == [b EXCEPT
                           !.bids_[loc.price].orders = list_erase(@, loc.list_iter)]
                  b2 == deallocate(b1, loc.order)
              IN IF b2.bids_[loc.price].orders = <<>>
                 THEN [b2 EXCEPT !.bids_ = MapErase(@, loc.price)] ELSE b2
         ELSE b
    ELSE IF loc.price \in DOMAIN b.asks_
         THEN LET b1 == [b EXCEPT
                           !.asks_[loc.price].orders = list_erase(@, loc.list_iter)]
                  b2 == deallocate(b1, loc.order)
              IN IF b2.asks_[loc.price].orders = <<>>
                 THEN [b2 EXCEPT !.asks_ = MapErase(@, loc.price)] ELSE b2
         ELSE b

remove_order_from_book(b, loc) ==
    IF loc.is_bid
    THEN IF loc.price \in DOMAIN b.bids_
         THEN LET b1 == [b EXCEPT
                           !.bids_[loc.price].total_quantity = @ - b.mem[loc.order].quantity,
                           !.bids_[loc.price].orders = list_erase(@, loc.list_iter)]
                  b2 == deallocate(b1, loc.order)
              IN IF b2.bids_[loc.price].orders = <<>>
                 THEN [b2 EXCEPT !.bids_ = MapErase(@, loc.price)] ELSE b2
         ELSE b
    ELSE IF loc.price \in DOMAIN b.asks_
         THEN LET b1 == [b EXCEPT
                           !.asks_[loc.price].total_quantity = @ - b.mem[loc.order].quantity,
                           !.asks_[loc.price].orders = list_erase(@, loc.list_iter)]
                  b2 == deallocate(b1, loc.order)
              IN IF b2.asks_[loc.price].orders = <<>>
                 THEN [b2 EXCEPT !.asks_ = MapErase(@, loc.price)] ELSE b2
         ELSE b

\* ---- cancel_order ----
\* variant: a cancel of an unknown id is counted
cancel_order_counted(b, order_id) ==
    IF order_id \notin DOMAIN b.order_lookup_
    THEN [b EXCEPT !.total_orders_cancelled_ = @ + 1, !.ret = "false"]
    ELSE LET loc == b.order_lookup_[order_id]
             b1 == remove_order_from_book(b, loc)
         IN [b1 EXCEPT !.order_lookup_ = MapErase(@, order_id),
                       !.total_orders_cancelled_ = @ + 1,
                       !.ret = "true"]

cancel_order(b, order_id) ==
    IF order_id \notin DOMAIN b.order_lookup_
    THEN [b EXCEPT !.ret = "false"]
    ELSE LET loc == b.order_lookup_[order_id]
             b1 == remove_order_from_book(b, loc)
         IN [b1 EXCEPT !.order_lookup_ = MapErase(@, order_id),
                       !.total_orders_cancelled_ = @ + 1,
                       !.ret = "true"]

\* ---- amend_order ----
\* variant: the old quantity is carried over
amended_copy_old_quantity(old, new_price, new_quantity) ==
    [old EXCEPT !.price = new_price]

\* the record handed to add_order on a price change
amended_copy(old, new_price, new_quantity) ==
    [old EXCEPT !.price = new_price, !.quantity = new_quantity]

\* variant: every amend takes the cancel + add path
price_changed_always(new_price, old_price) == TRUE

\* the test that selects the cancel + add path
price_changed(new_price, old_price) == new_price # old_price

\* variant: the level total becomes the new quantity
amended_total_replaced(total_quantity, old_quantity, new_quantity) ==
    new_quantity

\* variant: the old quantity is not subtracted
amended_total_added(total_quantity, old_quantity, new_quantity) ==
    total_quantity + new_quantity

\* the level total after an in-place quantity change
amended_total(total_quantity, old_quantity, new_quantity) ==
    total_quantity - old_quantity + new_quantity

amend_order(b, order_id, new_price, new_quantity) ==
    IF order_id \notin DOMAIN b.order_lookup_
    THEN [b EXCEPT !.ret = "false"]
    ELSE
      LET loc == b.order_lookup_[order_id]
          order == loc.order
          old_price == b.mem[order].price
          old_quantity == b.mem[order].quantity
      IN IF price_changed(new_price, old_price)
         THEN LET new_order == amended_copy(b.mem[order], new_price, new_quantity)
                  b1 == cancel_order(b, order_id)
                  b2 == add_order(b1, new_order)
              IN [b2 EXCEPT !.ret = "true"]
         ELSE IF new_quantity # old_quantity
         THEN LET b1 == [b EXCEPT !.mem[order].quantity = new_quantity]
                  b2 == IF loc.is_bid
                        THEN IF loc.price \in DOMAIN b1.bids_
                             THEN [b1 EXCEPT !.bids_[loc.price].total_quantity =
                                                amended_total(@, old_quantity, new_quantity)]
                             ELSE b1
                        ELSE IF loc.price \in DOMAIN b1.asks_
                             THEN [b1 EXCEPT !.asks_[loc.price].total_quantity =
                                                amended_total(@, old_quantity, new_quantity)]
                             ELSE b1
              IN [match_orders(b2, order_id) EXCEPT !.ret = "true"]
         ELSE [b EXCEPT !.ret = "true"]

\* ---- clear ----
\* the slots in the order the two range-for loops visit them
RECURSIVE walk_bids(_)
walk_bids(m) ==
    IF DOMAIN m = {} THEN <<>>
    ELSE LET p == bids_begin(m) IN m[p].orders \o walk_bids(MapErase(m, p))

RECURSIVE walk_asks(_)
walk_asks(m) ==
    IF DOMAIN m = {} THEN <<>>
    ELSE LET p == asks_begin(m) IN m[p].orders \o walk_asks(MapErase(m, p))

RECURSIVE deallocate_all(_, _)
deallocate_all(b, slots) ==
    IF slots = <<>> THEN b ELSE deallocate_all(deallocate(b, Head(slots)), Tail(slots))

\* variant: total_orders_matched_ survives the clear
clear_matched_kept(b) ==
    LET b1 == deallocate_all(b, walk_bids(b.bids_))
        b2 == deallocate_all(b1, walk_asks(b.asks_))
    IN [b2 EXCEPT !.bids_ = <<>>, !.asks_ = <<>>, !.order_lookup_ = <<>>,
                  !.total_orders_added_ = 0,
                  !.total_orders_cancelled_ = 0,
                  !.ret = "void"]

\* variant: total_orders_cancelled_ survives the clear
clear_cancelled_kept(b) ==
    LET b1 == deallocate_all(b, walk_bids(b.bids_))
        b2 == deallocate_all(b1, walk_asks(b.asks_))
    IN [b2 EXCEPT !.bids_ = <<>>, !.asks_ = <<>>, !.order_lookup_ = <<>>,
                  !.total_orders_added_ = 0,
                  !.total_orders_matched_ = 0,
                  !.ret = "void"]

\* variant: the added counter survives
clear_added_kept(b) ==
    LET b1 == deallocate_all(b, walk_bids(b.bids_))
        b2 == deallocate_all(b1, walk_asks(b.asks_))
    IN [b2 EXCEPT !.bids_ = <<>>, !.asks_ = <<>>, !.order_lookup_ = <<>>,
                  !.total_orders_cancelled_ = 0,
                  !.total_orders_matched_ = 0,
                  !.ret = "void"]

clear(b) ==
    LET b1 == deallocate_all(b, walk_bids(b.bids_))
        b2 == deallocate_all(b1, walk_asks(b.asks_))
    IN [b2 EXCEPT !.bids_ = <<>>, !.asks_ = <<>>, !.order_lookup_ = <<>>,
                  !.total_orders_added_ = 0,
                  !.total_orders_cancelled_ = 0,
                  !.total_orders_matched_ = 0,
                  !.ret = "void"]

\* ---- get_snapshot, get_best_bid, get_best_ask ----
PriceLevel(p, qty) == [price |-> p, total_quantity |-> qty]

\* variant: the loop stops one level late
RECURSIVE snapshot_bids_late(_, _, _)
snapshot_bids_late(m, depth, count) ==
    IF DOMAIN m = {} \/ count > depth THEN <<>>
    ELSE LET p == bids_begin(m)
         IN <<PriceLevel(p, m[p].total_quantity)>>
              \o snapshot_bids_late(MapErase(m, p), depth, count + 1)

\* the range-for over bids_ with its break at count >= depth
RECURSIVE snapshot_bids(_, _, _)
snapshot_bids(m, depth, count) ==
    IF DOMAIN m = {} \/ count >= depth THEN <<>>
    ELSE LET p == bids_begin(m)
         IN <<PriceLevel(p, m[p].total_quantity)>>
              \o snapshot_bids(MapErase(m, p), depth, count + 1)

\* the range-for over asks_ with its break at count >= depth
RECURSIVE snapshot_asks(_, _, _)
snapshot_asks(m, depth, count) ==
    IF DOMAIN m = {} \/ count >= depth THEN <<>>
    ELSE LET p == asks_begin(m)
         IN <<PriceLevel(p, m[p].total_quantity)>>
              \o snapshot_asks(MapErase(m, p), depth, count + 1)

get_snapshot(b, depth) ==
    [b EXCEPT !.out.bids = snapshot_bids(b.bids_, depth, 0),
              !.out.asks = snapshot_asks(b.asks_, depth, 0),
              !.ret = "void"]

get_best_bid(b) ==
    IF DOMAIN b.bids_ = {}
    THEN [b EXCEPT !.ret = "false"]
    ELSE LET it == bids_begin(b.bids_)
         IN [b EXCEPT !.out.price = it,
                      !.out.quantity = b.bids_[it].total_quantity,
                      !.ret = "true"]

get_best_ask(b) ==
    IF DOMAIN b.asks_ = {}
    THEN [b EXCEPT !.ret = "false"]
    ELSE LET it == asks_begin(b.asks_)
         IN [b EXCEPT !.out.price = it,
                      !.out.quantity = b.asks_[it].total_quantity,
                      !.ret = "true"]

\* ---- the state machine ----
\* the caller's out-parameters before a query fills them
OutFresh == [bids |-> <<>>, asks |-> <<>>, price |-> 0, quantity |-> 0]

\* the ids named by a sequence of trades
TradedIds(ts) ==
    {ts[i].buy_order_id : i \in DOMAIN ts} \cup {ts[i].sell_order_id : i \in DOMAIN ts}

\* OrderBook::OrderBook(), with the pool's first block allocated
Init ==
    /\ bids_ = <<>>
    /\ asks_ = <<>>
    /\ order_lookup_ = <<>>
    /\ mem = <<>>
    /\ free_list_ = [i \in 1..BlockSize |-> BlockSize - i]
    /\ block_count_ = 1
    /\ total_orders_added_ = 0
    /\ total_orders_cancelled_ = 0
    /\ total_orders_matched_ = 0
    /\ trades = <<>>
    /\ ret = "void"
    /\ op = "new"
    /\ out = OutFresh
    /\ arrivals = <<>>
    /\ emitted = 0
    /\ fully_filled = 0

\* a public call starts with an empty output and fresh out-parameters; op
\* names the call (ghost); the ghost arrival list forgets the orders that no
\* longer rest; emitted counts the TRADE lines and fully_filled the orders
\* that left the book by a fill, both since construction or the last clear
Entry(name) == [Book EXCEPT !.trades = <<>>, !.op = name, !.out = OutFresh]

Commit(b) ==
    /\ bids_' = b.bids_
    /\ asks_' = b.asks_
    /\ order_lookup_' = b.order_lookup_
    /\ mem' = b.mem
    /\ free_list_' = b.free_list_
    /\ block_count_' = b.block_count_
    /\ total_orders_added_' = b.total_orders_added_
    /\ total_orders_cancelled_' = b.total_orders_cancelled_
    /\ total_orders_matched_' = b.total_orders_matched_
    /\ trades' = b.trades
    /\ ret' = b.ret
    /\ op' = b.op
    /\ out' = b.out
    /\ arrivals' = SelectSeq(b.arrivals, LAMBDA x : x \in RestingIds(b))
    /\ emitted' = IF b.op = "clear" THEN 0 ELSE emitted + Len(b.trades)
    /\ fully_filled' = IF b.op = "clear" THEN 0
                       ELSE fully_filled
                              + Cardinality(TradedIds(b.trades) \ RestingIds(b))

AddOrder(id, is_buy, price, qty, ts) ==
    /\ id \notin DOMAIN order_lookup_
    /\ total_orders_added_ < MaxAdded
    /\ Commit(add_order(Entry("add_order"), Order(id, is_buy, price, qty, ts)))

CancelOrder(id) ==
    Commit(cancel_order(Entry("cancel_order"), id))

AmendOrder(id, new_price, new_quantity) ==
    /\ (id \in DOMAIN order_lookup_ /\ mem[order_lookup_[id].order].price # new_price)
          => total_orders_added_ < MaxAdded
    /\ Commit(amend_order(Entry("amend_order"), id, new_price, new_quantity))

Clear ==
    Commit(clear(Entry("clear")))

Next ==
    \/ \E id \in Ids, is_buy \in BOOLEAN, price \in Prices,
          qty \in Quantities, ts \in Timestamps :
          AddOrder(id, is_buy, price, qty, ts)
    \/ \E id \in Ids : CancelOrder(id)
    \/ \E id \in Ids, new_price \in Prices, new_quantity \in Quantities :
          AmendOrder(id, new_price, new_quantity)
    \/ Clear

Spec == Init /\ [][Next]_vars

\* ---- the same machine with the read-only queries ----
GetSnapshot(depth) ==
    Commit(get_snapshot(Entry("get_snapshot"), depth))

GetBestBid ==
    Commit(get_best_bid(Entry("get_best_bid")))

GetBestAsk ==
    Commit(get_best_ask(Entry("get_best_ask")))

\* no query reads a timestamp: the book is driven with a single one
NextQ ==
    \/ \E id \in Ids, is_buy \in BOOLEAN, price \in Prices, qty \in Quantities :
          AddOrder(id, is_buy, price, qty, 1)
    \/ \E id \in Ids : CancelOrder(id)
    \/ \E id \in Ids, new_price \in Prices, new_quantity \in Quantities :
          AmendOrder(id, new_price, new_quantity)
    \/ Clear
    \/ \E depth \in Depths : GetSnapshot(depth)
    \/ GetBestBid
    \/ GetBestAsk

SpecQ == Init /\ [][NextQ]_vars

\* ======================================================================
\* Properties
\* ======================================================================
RECURSIVE SetSum(_, _)
SetSum(S, f) ==
    IF S = {} THEN 0
    ELSE LET x == CHOOSE y \in S : TRUE IN f[x] + SetSum(S \ {x}, f)

\* the order ids of a queue, head first
QueueIds(orders) == [i \in DOMAIN orders |-> mem[orders[i]].order_id]

QueueQuantities(orders) == [i \in DOMAIN orders |-> mem[orders[i]].quantity]

AllLevels == {bids_[p] : p \in DOMAIN bids_} \cup {asks_[p] : p \in DOMAIN asks_}

\* C1: after every public operation the book is uncrossed: when both sides
\* are non-empty the best bid price is strictly below the best ask price.
C1_Uncrossed ==
    (DOMAIN bids_ # {} /\ DOMAIN asks_ # {})
        => bids_begin(bids_) < asks_begin(asks_)

\* a cross was resolved and both sides still hold orders
C1_Witness ==
    /\ DOMAIN bids_ # {}
    /\ DOMAIN asks_ # {}
    /\ trades # <<>>

\* C2: the three indices agree: every resting order is in exactly one queue,
\* once, on the side of its is_buy flag at the level keyed by its price; the
\* locator has an entry for exactly the resting ids, and each entry carries
\* the order's side and price and designates the order's node in that queue.
C2_IndicesAgree ==
    /\ \A p \in DOMAIN bids_ : \A i \in DOMAIN bids_[p].orders :
          /\ bids_[p].orders[i] \in DOMAIN mem
          /\ mem[bids_[p].orders[i]].is_buy
          /\ mem[bids_[p].orders[i]].price = p
          /\ bids_[p].price = p
    /\ \A p \in DOMAIN asks_ : \A i \in DOMAIN asks_[p].orders :
          /\ asks_[p].orders[i] \in DOMAIN mem
          /\ ~mem[asks_[p].orders[i]].is_buy
          /\ mem[asks_[p].orders[i]].price = p
          /\ asks_[p].price = p
    \* exactly once: as many queue positions as distinct resting ids
    /\ SetSum(DOMAIN bids_, [p \in DOMAIN bids_ |-> Len(bids_[p].orders)])
         + SetSum(DOMAIN asks_, [p \in DOMAIN asks_ |-> Len(asks_[p].orders)])
         = Cardinality(RestingIds(Book))
    /\ DOMAIN order_lookup_ = RestingIds(Book)
    /\ \A id \in DOMAIN order_lookup_ :
          LET loc == order_lookup_[id]
              side == IF loc.is_bid THEN bids_ ELSE asks_
          IN /\ loc.order \in DOMAIN mem
             /\ mem[loc.order].order_id = id
             /\ mem[loc.order].is_buy = loc.is_bid
             /\ mem[loc.order].price = loc.price
             /\ loc.price \in DOMAIN side
             /\ loc.list_iter \in Range(side[loc.price].orders)
             /\ loc.list_iter = loc.order

\* a fill removed an order while other orders stay indexed
C2_Witness ==
    /\ Cardinality(DOMAIN order_lookup_) >= 2
    /\ total_orders_matched_ > 0

\* C3: every level present has a non-empty queue and a total_quantity equal
\* to the sum of its orders' remaining quantities; hence a side's level
\* totals add up to the quantities reached through the locator.
C3_LevelTotals ==
    /\ \A L \in AllLevels :
          /\ L.orders # <<>>
          /\ L.total_quantity = SeqSum(QueueQuantities(L.orders))
    /\ SetSum(DOMAIN bids_, [p \in DOMAIN bids_ |-> bids_[p].total_quantity])
         = SetSum({id \in DOMAIN order_lookup_ : order_lookup_[id].is_bid},
                  [id \in DOMAIN order_lookup_ |-> mem[order_lookup_[id].order].quantity])
    /\ SetSum(DOMAIN asks_, [p \in DOMAIN asks_ |-> asks_[p].total_quantity])
         = SetSum({id \in DOMAIN order_lookup_ : ~order_lookup_[id].is_bid},
                  [id \in DOMAIN order_lookup_ |-> mem[order_lookup_[id].order].quantity])

\* a partial fill left an order at the head of a level of two orders
C3_Witness ==
    /\ trades # <<>>
    /\ \E L \in AllLevels :
          /\ Len(L.orders) >= 2
          /\ mem[Head(L.orders)].order_id \in
                {trades[i].buy_order_id : i \in DOMAIN trades}
                  \cup {trades[i].sell_order_id : i \in DOMAIN trades}

\* the price of the order that was resting when the aggressor arrived
RestingPrice(t) ==
    IF t.aggressor = t.buy_order_id THEN t.sell_price ELSE t.buy_price

\* C4: every emitted trade reports the price of the order that was already
\* resting: the sell price for a buy aggressor, the buy price for a sell
\* aggressor.
C4_TradeAtRestingPrice ==
    \A i \in DOMAIN trades : trades[i].price = RestingPrice(trades[i])

\* the arrival position of a resting id
ArrivalPos(id) == CHOOSE i \in DOMAIN arrivals : arrivals[i] = id

\* C5: within a level orders fill in arrival order: no trade involves an
\* order while an earlier arrival at its side and price still rests, and
\* every queue lists its orders by arrival, so a partially filled order
\* stays ahead of later arrivals.
C5_FifoWithinLevel ==
    /\ \A i \in DOMAIN trades :
          trades[i].buy_ahead = {} /\ trades[i].sell_ahead = {}
    /\ \A L \in AllLevels : \A i, j \in DOMAIN L.orders :
          i < j => ArrivalPos(QueueIds(L.orders)[i]) < ArrivalPos(QueueIds(L.orders)[j])

\* a partially filled order still heads a queue in front of a later arrival
C5_Witness ==
    /\ trades # <<>>
    /\ \E L \in AllLevels :
          /\ Len(L.orders) >= 2
          /\ \E i \in DOMAIN trades :
                mem[Head(L.orders)].order_id \in
                    {trades[i].buy_order_id, trades[i].sell_order_id}

\* C6: the trades of one add_order consume the opposite side best price
\* first: for a buy aggressor sell prices never decrease and no ask at a
\* lower price rests when a trade is emitted; for a sell aggressor bid prices
\* never increase and no bid at a higher price rests.
C6_PricePriority ==
    /\ \A i \in DOMAIN trades :
          IF trades[i].aggressor = trades[i].buy_order_id
          THEN trades[i].sell_better = {}
          ELSE trades[i].buy_better = {}
    /\ \A i, j \in DOMAIN trades :
          i < j =>
            IF trades[i].aggressor = trades[i].buy_order_id
            THEN trades[i].sell_price <= trades[j].sell_price
            ELSE trades[i].buy_price >= trades[j].buy_price

\* one add_order walked two ask levels
C6_Witness ==
    /\ op = "add_order"
    /\ Len(trades) >= 2
    /\ trades[1].aggressor = trades[1].buy_order_id
    /\ trades[1].sell_price < trades[2].sell_price

\* ---- frame properties of single calls ----
\* the program state of the book (indices, records, counters)
BookState == <<bids_, asks_, order_lookup_, mem,
               total_orders_added_, total_orders_cancelled_, total_orders_matched_>>

\* s with exactly the position holding x removed
RemovedAt(orders, x, result) ==
    \E k \in DOMAIN orders :
        /\ orders[k] = x
        /\ result = SubSeq(orders, 1, k - 1) \o SubSeq(orders, k + 1, Len(orders))

\* the level of loc, before and after a call, lost exactly the order of loc
LevelLostOrder(side, sideAfter, loc) ==
    LET p == loc.price
    IN /\ \A q \in (DOMAIN side \cup DOMAIN sideAfter) \ {p} :
             q \in DOMAIN side /\ q \in DOMAIN sideAfter /\ sideAfter[q] = side[q]
       /\ IF Len(side[p].orders) = 1
          THEN p \notin DOMAIN sideAfter
          ELSE /\ p \in DOMAIN sideAfter
               /\ RemovedAt(side[p].orders, loc.order, sideAfter[p].orders)
               /\ sideAfter[p].total_quantity =
                     side[p].total_quantity - mem[loc.order].quantity

CancelPost(id) ==
    LET loc == order_lookup_[id]
    IN /\ ret' = "true"
       /\ trades' = <<>>
       /\ total_orders_cancelled_' = total_orders_cancelled_ + 1
       /\ total_orders_added_' = total_orders_added_
       /\ total_orders_matched_' = total_orders_matched_
       /\ order_lookup_' = [x \in DOMAIN order_lookup_ \ {id} |-> order_lookup_[x]]
       /\ IF loc.is_bid
          THEN asks_' = asks_ /\ LevelLostOrder(bids_, bids_', loc)
          ELSE bids_' = bids_ /\ LevelLostOrder(asks_, asks_', loc)
       /\ \A s \in DOMAIN mem \ {loc.order} : s \in DOMAIN mem' /\ mem'[s] = mem[s]
       /\ loc.order \notin DOMAIN mem'
       \* an immediately repeated cancel
       /\ cancel_order(Entry("cancel_order"), id)'.ret = "false"

\* C7: cancel_order of a live id returns true, removes exactly that order,
\* lowers its level total by its remaining quantity, erases an emptied
\* level, drops the locator entry and counts one cancel; no trade, the other
\* counters and every other order and level are unchanged; a repeated
\* cancel returns false.
C7_CancelFrame ==
    [][\A id \in Ids :
          (/\ op' = "cancel_order"
           /\ id \in DOMAIN order_lookup_
           /\ CancelOrder(id)) => CancelPost(id)]_vars

\* a cancel took one order out of a level that keeps another one
C7_Witness ==
    /\ op = "cancel_order"
    /\ ret = "true"
    /\ total_orders_added_ = 3
    /\ total_orders_cancelled_ = 1
    /\ \E L \in AllLevels : Len(L.orders) = 2

\* C8: cancel_order and amend_order of an id that is not in the locator
\* return false and change nothing; no trade is emitted.
C8_UnknownIdNoChange ==
    [][\A id \in Ids :
          id \notin DOMAIN order_lookup_ =>
            /\ (op' = "cancel_order" /\ CancelOrder(id)) =>
                  (ret' = "false" /\ trades' = <<>> /\ UNCHANGED BookState)
            /\ \A p \in Prices, q \in Quantities :
                  (op' = "amend_order" /\ AmendOrder(id, p, q)) =>
                  (ret' = "false" /\ trades' = <<>> /\ UNCHANGED BookState)]_vars

\* an id that was fully filled is cancelled or amended on a non-empty book
C8_Witness ==
    /\ op \in {"cancel_order", "amend_order"}
    /\ ret = "false"
    /\ total_orders_matched_ > 0
    /\ order_lookup_ # <<>>

\* the ids queued at the level of a locator entry
LevelIdsOf(side, memory, loc) ==
    [i \in DOMAIN side[loc.price].orders |-> memory[side[loc.price].orders[i]].order_id]

\* C9: amend_order at the order's current price with a new quantity > 0
\* leaves the order of ids in its level's queue as it was, whether the
\* quantity goes up or down, and the order carries the new quantity.
C9_SamePriceAmendKeepsPosition ==
    [][\A id \in Ids, q \in Quantities :
          (/\ op' = "amend_order"
           /\ id \in DOMAIN order_lookup_
           /\ AmendOrder(id, mem[order_lookup_[id].order].price, q))
          => LET loc == order_lookup_[id]
             IN /\ ret' = "true"
                /\ id \in DOMAIN order_lookup_'
                /\ order_lookup_'[id].price = loc.price
                /\ mem'[order_lookup_'[id].order].quantity = q
                /\ IF loc.is_bid
                   THEN /\ loc.price \in DOMAIN bids_'
                        /\ LevelIdsOf(bids_', mem', loc) = LevelIdsOf(bids_, mem, loc)
                   ELSE /\ loc.price \in DOMAIN asks_'
                        /\ LevelIdsOf(asks_', mem', loc) = LevelIdsOf(asks_, mem, loc)]_vars

\* the head of a two-order level was amended in place to a larger quantity
C9_Witness ==
    /\ op = "amend_order"
    /\ ret = "true"
    /\ total_orders_cancelled_ = 0
    /\ total_orders_added_ = 2
    /\ \E L \in AllLevels :
          /\ Len(L.orders) = 2
          /\ L.total_quantity = MaxQty + 1
          /\ mem[L.orders[1]].quantity = MaxQty

\* the result of cancel_order(id) followed by add_order of the re-priced order
CancelThenAdd(id, new_price, new_quantity) ==
    LET old == mem[order_lookup_[id].order]
    IN add_order(cancel_order(Entry("amend_order"), id),
                 Order(id, old.is_buy, new_price, new_quantity, old.timestamp_ns))

\* C10: amend_order to a different price equals cancel_order(id) followed by
\* add_order of the same id, side and timestamp with the new price and
\* quantity: same indices, queues, locator, trades and counters (added and
\* cancelled one higher each); the order, if it rests, is at the tail of its
\* new level; the call returns true even when the order was filled.
C10_PriceAmendIsCancelAdd ==
    [][\A id \in Ids, p \in Prices, q \in Quantities :
          (/\ op' = "amend_order"
           /\ id \in DOMAIN order_lookup_
           /\ mem[order_lookup_[id].order].price # p
           /\ AmendOrder(id, p, q))
          => LET e == CancelThenAdd(id, p, q)
             IN /\ bids_' = e.bids_
                /\ asks_' = e.asks_
                /\ order_lookup_' = e.order_lookup_
                /\ mem' = e.mem
                /\ free_list_' = e.free_list_
                /\ block_count_' = e.block_count_
                /\ trades' = e.trades
                /\ total_orders_matched_' = e.total_orders_matched_
                /\ total_orders_added_' = total_orders_added_ + 1
                /\ total_orders_cancelled_' = total_orders_cancelled_ + 1
                /\ ret' = "true"
                /\ id \in DOMAIN order_lookup_' =>
                     LET loc == order_lookup_'[id]
                         side == IF loc.is_bid THEN bids_' ELSE asks_'
                     IN /\ loc.price = p
                        /\ mem'[loc.order].timestamp_ns =
                              mem[order_lookup_[id].order].timestamp_ns
                        /\ side[p].orders[Len(side[p].orders)] = loc.order]_vars

\* a price amend whose re-added order was fully filled during the call
C10_Witness ==
    /\ op = "amend_order"
    /\ ret = "true"
    /\ trades # <<>>
    /\ trades[1].aggressor \notin DOMAIN order_lookup_

\* ---- laws over two calls ----
\* the order's price does not cross the opposite best
NonCrossing(o) ==
    IF o.is_buy
    THEN DOMAIN asks_ = {} \/ o.price < asks_begin(asks_)
    ELSE DOMAIN bids_ = {} \/ o.price > bids_begin(bids_)

\* the book after add_order(o) and then cancel_order(o.order_id)
AddThenCancel(o) ==
    LET b1 == add_order(Entry("add_order"), o)
    IN [added |-> b1,
        cancelled |-> cancel_order([b1 EXCEPT !.trades = <<>>, !.op = "cancel_order"],
                                   o.order_id)]

\* C11: from any reachable book, add_order of a non-crossing order with a
\* non-live id followed at once by cancel_order of that id restores both side
\* indices and the locator, emits no trade, and leaves total_orders_added and
\* total_orders_cancelled one higher each and total_orders_matched unchanged.
C11_AddThenCancelRestores ==
    \A id \in Ids \ DOMAIN order_lookup_, is_buy \in BOOLEAN, price \in Prices,
       qty \in Quantities, ts \in Timestamps :
       LET o == Order(id, is_buy, price, qty, ts)
           r == AddThenCancel(o)
       IN NonCrossing(o) =>
            /\ r.added.trades = <<>>
            /\ r.cancelled.trades = <<>>
            /\ r.cancelled.ret = "true"
            /\ r.cancelled.bids_ = bids_
            /\ r.cancelled.asks_ = asks_
            /\ r.cancelled.order_lookup_ = order_lookup_
            /\ r.cancelled.total_orders_added_ = total_orders_added_ + 1
            /\ r.cancelled.total_orders_cancelled_ = total_orders_cancelled_ + 1
            /\ r.cancelled.total_orders_matched_ = total_orders_matched_

\* an order was added without a cross and cancelled again, next to two
\* resting orders on opposite sides
C11_Witness ==
    /\ op = "cancel_order"
    /\ ret = "true"
    /\ total_orders_added_ = 3
    /\ total_orders_cancelled_ = 1
    /\ total_orders_matched_ = 0
    /\ DOMAIN bids_ # {}
    /\ DOMAIN asks_ # {}

\* the slots resting opposite to o at prices that cross it
CrossingSlots(b, o) ==
    {s \in QueuedSlots(b) :
        /\ b.mem[s].is_buy # o.is_buy
        /\ IF o.is_buy THEN b.mem[s].price <= o.price ELSE b.mem[s].price >= o.price}

TradedQuantity(ts) == SeqSum([i \in DOMAIN ts |-> ts[i].quantity])

\* C12: add_order of a crossing order of quantity Q against resting crossing
\* quantity L: when L < Q every crossing opposite order is removed, the
\* trades sum to L and the aggressor rests on its side at its limit price with
\* Q - L and a locator entry; when L >= Q the aggressor is neither in the book
\* nor in the locator and the trades sum to Q.
C12_AggressorRemainder ==
    \A id \in Ids \ DOMAIN order_lookup_, is_buy \in BOOLEAN, price \in Prices,
       qty \in Quantities, ts \in Timestamps :
       LET o == Order(id, is_buy, price, qty, ts)
           L == SetSum(CrossingSlots(Book, o),
                       [s \in CrossingSlots(Book, o) |-> mem[s].quantity])
           b1 == add_order(Entry("add_order"), o)
           side == IF is_buy THEN b1.bids_ ELSE b1.asks_
       IN L > 0 =>
            IF L < qty
            THEN /\ CrossingSlots(b1, o) = {}
                 /\ TradedQuantity(b1.trades) = L
                 /\ id \in DOMAIN b1.order_lookup_
                 /\ b1.order_lookup_[id].is_bid = is_buy
                 /\ b1.order_lookup_[id].price = price
                 /\ price \in DOMAIN side
                 /\ b1.order_lookup_[id].order \in Range(side[price].orders)
                 /\ b1.mem[b1.order_lookup_[id].order].order_id = id
                 /\ b1.mem[b1.order_lookup_[id].order].quantity = qty - L
            ELSE /\ id \notin DOMAIN b1.order_lookup_
                 /\ id \notin RestingIds(b1)
                 /\ TradedQuantity(b1.trades) = qty

\* an aggressor took all the crossing liquidity and rests with its remainder
C12_Witness ==
    /\ op = "add_order"
    /\ trades # <<>>
    /\ trades[1].aggressor \in DOMAIN order_lookup_
    /\ mem[order_lookup_[trades[1].aggressor].order].quantity
          = MaxQty - TradedQuantity(trades)
    /\ order_lookup_[trades[1].aggressor].is_bid
    /\ DOMAIN asks_ = {}

\* ---- counters ----
\* C13: total_orders_matched equals the number of trade events emitted since
\* construction or the last clear.
C13_MatchedCountsTrades ==
    total_orders_matched_ = emitted

\* at least two trades were emitted and counted, the last call emitting one
C13_Witness ==
    /\ total_orders_matched_ >= 2
    /\ emitted >= 2
    /\ trades # <<>>

\* C14: total_orders_added >= total_orders_cancelled + the orders removed by a
\* full fill since construction or the last clear + the resting orders.
C14_AddedCoversOutcomes ==
    total_orders_added_ >=
        total_orders_cancelled_ + fully_filled + Cardinality(QueuedSlots(Book))

\* one order was filled, one cancelled and one rests
C14_Witness ==
    /\ fully_filled > 0
    /\ total_orders_cancelled_ > 0
    /\ QueuedSlots(Book) # {}

\* ---- the same machine when a caller may also pass quantity 0 ----
\* add_order has no validation: a zero quantity goes down the same path
AddOrderZero(id, is_buy, price) ==
    /\ id \notin DOMAIN order_lookup_
    /\ total_orders_added_ < MaxAdded
    /\ Commit(add_order(Entry("add_order"), Order(id, is_buy, price, 0, 1)))

NextZ ==
    \/ \E id \in Ids, is_buy \in BOOLEAN, price \in Prices, qty \in Quantities :
          AddOrder(id, is_buy, price, qty, 1)
    \/ \E id \in Ids, is_buy \in BOOLEAN, price \in Prices :
          AddOrderZero(id, is_buy, price)
    \/ \E id \in Ids : CancelOrder(id)
    \/ \E id \in Ids, new_price \in Prices, new_quantity \in Quantities :
          AmendOrder(id, new_price, new_quantity)
    \/ Clear

SpecZ == Init /\ [][NextZ]_vars

\* ---- the walk-through with six resting orders and one aggressive buy ----
\* prices in ticks of 0.1
S2Orders ==
    {Order(1, TRUE, 1000, 50, 1), Order(2, TRUE, 995, 100, 1),
     Order(3, TRUE, 990, 75, 1), Order(4, FALSE, 1010, 60, 1),
     Order(5, FALSE, 1015, 80, 1), Order(6, FALSE, 1020, 90, 1),
     Order(105, TRUE, 1020, 200, 1)}

\* the aggressive buy is the seventh add, the resting orders come in any
\* order before it
AddOrderS2(order) ==
    /\ order.order_id \notin DOMAIN order_lookup_
    /\ total_orders_added_ < Cardinality(S2Orders)
    /\ order.order_id = 105 <=> total_orders_added_ = Cardinality(S2Orders) - 1
    /\ Commit(add_order(Entry("add_order"), order))

NextS2 ==
    \/ \E order \in S2Orders : AddOrderS2(order)
    \/ CancelOrder(2)

SpecS2 == Init /\ [][NextS2]_vars

\* ---- the same machine when a caller may also amend to quantity 0 ----
\* amend_order has no validation either: at the current price the quantity
\* is overwritten in place
AmendOrderZero(id) ==
    /\ id \in DOMAIN order_lookup_
    /\ Commit(amend_order(Entry("amend_order"), id,
                          mem[order_lookup_[id].order].price, 0))

NextAZ ==
    \/ \E id \in Ids, is_buy \in BOOLEAN, price \in Prices, qty \in Quantities :
          AddOrder(id, is_buy, price, qty, 1)
    \/ \E id \in Ids : CancelOrder(id)
    \/ \E id \in Ids, new_price \in Prices, new_quantity \in Quantities :
          AmendOrder(id, new_price, new_quantity)
    \/ \E id \in Ids : AmendOrderZero(id)
    \/ Clear

SpecAZ == Init /\ [][NextAZ]_vars

\* ---- queries ----
\* everything the object holds
ObjectState == <<bids_, asks_, order_lookup_, mem, free_list_, block_count_,
                 total_orders_added_, total_orders_cancelled_, total_orders_matched_>>

\* list holds the min(depth, levels) best levels of side with their totals,
\* best first
SnapshotOk(list, side, depth, descending) ==
    /\ Len(list) = Min2(depth, Cardinality(DOMAIN side))
    /\ \A i \in DOMAIN list :
          /\ list[i].price \in DOMAIN side
          /\ list[i].total_quantity = side[list[i].price].total_quantity
    /\ \A i, j \in DOMAIN list :
          i < j => IF descending THEN list[i].price > list[j].price
                                 ELSE list[i].price < list[j].price
    /\ \A p \in DOMAIN side \ {list[i].price : i \in DOMAIN list} :
          \A i \in DOMAIN list :
             IF descending THEN p < list[i].price ELSE p > list[i].price

\* C15: get_snapshot(depth) returns on each side the min(depth, levels) best
\* levels as (price, total_quantity), bids strictly descending and asks
\* strictly ascending; get_best_bid / get_best_ask return false on an empty
\* side and otherwise the first pair of that snapshot side; none of them
\* changes the book, the locator or the counters, and a repeated call returns
\* the same result.
C15_QueriesReadOnly ==
    [][/\ \A d \in Depths :
            (op' = "get_snapshot" /\ GetSnapshot(d)) =>
               /\ UNCHANGED ObjectState
               /\ trades' = <<>>
               /\ SnapshotOk(out'.bids, bids_, d, TRUE)
               /\ SnapshotOk(out'.asks, asks_, d, FALSE)
               /\ (d = 0 => out'.bids = <<>> /\ out'.asks = <<>>)
               /\ get_snapshot(Entry("get_snapshot"), d)'.out = out'
       /\ (op' = "get_best_bid" /\ GetBestBid) =>
               /\ UNCHANGED ObjectState
               /\ trades' = <<>>
               /\ ret' = IF DOMAIN bids_ = {} THEN "false" ELSE "true"
               /\ DOMAIN bids_ # {} =>
                     PriceLevel(out'.price, out'.quantity)
                        = get_snapshot(Book, 1).out.bids[1]
               /\ get_best_bid(Entry("get_best_bid"))'.out = out'
       /\ (op' = "get_best_ask" /\ GetBestAsk) =>
               /\ UNCHANGED ObjectState
               /\ trades' = <<>>
               /\ ret' = IF DOMAIN asks_ = {} THEN "false" ELSE "true"
               /\ DOMAIN asks_ # {} =>
                     PriceLevel(out'.price, out'.quantity)
                        = get_snapshot(Book, 1).out.asks[1]
               /\ get_best_ask(Entry("get_best_ask"))'.out = out']_vars

\* a snapshot of depth 1 was taken of a book with two bid levels
C15_Witness ==
    /\ op = "get_snapshot"
    /\ Len(out.bids) = 1
    /\ Cardinality(DOMAIN bids_) = 2
    /\ out.bids[1].price = MaxPrice

\* ---- zero quantity ----
\* C16: add_order called with quantity 0 is rejected: the side indices, the
\* locator and the counters are left unchanged, no zero-quantity order rests
\* in the book, and no trade is emitted.
C16_ZeroQuantityRejected ==
    [][\A id \in Ids, is_buy \in BOOLEAN, price \in Prices :
          (op' = "add_order" /\ AddOrderZero(id, is_buy, price)) =>
             /\ UNCHANGED <<bids_, asks_, order_lookup_, total_orders_added_,
                            total_orders_cancelled_, total_orders_matched_>>
             /\ trades' = <<>>]_vars

\* ---- clear ----
\* what a caller can observe of a book value: queues as the orders they hold,
\* the locator as the orders it points to, the counters, the output lines as
\* printed, the return value and the out-parameters; pool slots do not appear
TradeLine(t) == [buy_order_id |-> t.buy_order_id, sell_order_id |-> t.sell_order_id,
                 quantity |-> t.quantity, price |-> t.price]

ViewSide(b, side) ==
    [p \in DOMAIN side |->
        [orders |-> [i \in DOMAIN side[p].orders |-> b.mem[side[p].orders[i]]],
         total_quantity |-> side[p].total_quantity]]

View(b) ==
    [bids |-> ViewSide(b, b.bids_),
     asks |-> ViewSide(b, b.asks_),
     lookup |-> [id \in DOMAIN b.order_lookup_ |->
                   [order |-> b.mem[b.order_lookup_[id].order],
                    is_bid |-> b.order_lookup_[id].is_bid,
                    price |-> b.order_lookup_[id].price]],
     added |-> b.total_orders_added_,
     cancelled |-> b.total_orders_cancelled_,
     matched |-> b.total_orders_matched_,
     lines |-> [i \in DOMAIN b.trades |-> TradeLine(b.trades[i])],
     ret |-> b.ret,
     out |-> b.out]

\* the book a new object would hold with the same orders: live orders stored
\* in slots 0..n-1 by ascending id in a pool of the fewest blocks, the free
\* list as allocate_block leaves it
CanonSlot(b, s) ==
    Cardinality({t \in DOMAIN b.mem : b.mem[t].order_id < b.mem[s].order_id})

CanonSide(b, side) ==
    [p \in DOMAIN side |->
        [side[p] EXCEPT !.orders = [i \in DOMAIN @ |-> CanonSlot(b, @[i])]]]

Canon(b) ==
    LET n == Cardinality(DOMAIN b.mem)
        blocks == IF n <= BlockSize THEN 1 ELSE (n + BlockSize - 1) \div BlockSize
    IN [b EXCEPT
          !.bids_ = CanonSide(b, b.bids_),
          !.asks_ = CanonSide(b, b.asks_),
          !.order_lookup_ = [id \in DOMAIN @ |->
               [@[id] EXCEPT !.order = CanonSlot(b, @),
                             !.list_iter = CanonSlot(b, @)]],
          !.mem = [t \in {CanonSlot(b, s) : s \in DOMAIN b.mem} |->
                     b.mem[CHOOSE s \in DOMAIN b.mem : CanonSlot(b, s) = t]],
          !.free_list_ = [i \in 1..(blocks * BlockSize - n) |-> blocks * BlockSize - i],
          !.block_count_ = blocks]

\* a call of name on book value b
Called(b, name) == [b EXCEPT !.trades = <<>>, !.op = name, !.out = OutFresh]

\* every operation gives the same observable result on the current book as on
\* the new-object book holding the same orders
SameAsOnNewBook ==
    LET c == Canon(Book)
    IN /\ View(c) = View(Book)
       /\ \A id \in Ids \ DOMAIN order_lookup_, is_buy \in BOOLEAN,
             price \in Prices, qty \in Quantities :
             View(add_order(Called(Book, "add_order"), Order(id, is_buy, price, qty, 1)))
               = View(add_order(Called(c, "add_order"), Order(id, is_buy, price, qty, 1)))
       /\ \A id \in Ids :
             View(cancel_order(Called(Book, "cancel_order"), id))
               = View(cancel_order(Called(c, "cancel_order"), id))
       /\ \A id \in Ids, new_price \in Prices, new_quantity \in Quantities :
             View(amend_order(Called(Book, "amend_order"), id, new_price, new_quantity))
               = View(amend_order(Called(c, "amend_order"), id, new_price, new_quantity))
       /\ View(clear(Called(Book, "clear"))) = View(clear(Called(c, "clear")))
       /\ \A depth \in Depths :
             View(get_snapshot(Called(Book, "get_snapshot"), depth))
               = View(get_snapshot(Called(c, "get_snapshot"), depth))
       /\ View(get_best_bid(Called(Book, "get_best_bid")))
               = View(get_best_bid(Called(c, "get_best_bid")))
       /\ View(get_best_ask(Called(Book, "get_best_ask")))
               = View(get_best_ask(Called(c, "get_best_ask")))

\* the program state of Canon(Book) is the state after construction
CanonIsNew ==
    LET c == Canon(Book)
    IN /\ c.bids_ = <<>> /\ c.asks_ = <<>> /\ c.order_lookup_ = <<>> /\ c.mem = <<>>
       /\ c.free_list_ = [i \in 1..BlockSize |-> BlockSize - i]
       /\ c.block_count_ = 1
       /\ c.total_orders_added_ = 0
       /\ c.total_orders_cancelled_ = 0
       /\ c.total_orders_matched_ = 0

\* any id can be added and then cancelled as on a new book
AddableAndCancellable ==
    \A id \in Ids, is_buy \in BOOLEAN, price \in Prices, qty \in Quantities :
       LET a == add_order(Called(Book, "add_order"), Order(id, is_buy, price, qty, 1))
           c == cancel_order(Called(a, "cancel_order"), id)
       IN /\ DOMAIN a.order_lookup_ = {id}
          /\ a.total_orders_added_ = 1
          /\ a.trades = <<>>
          /\ (IF is_buy THEN a.bids_ ELSE a.asks_)[price].total_quantity = qty
          /\ c.ret = "true"
          /\ c.bids_ = <<>> /\ c.asks_ = <<>> /\ c.order_lookup_ = <<>>
          /\ c.total_orders_cancelled_ = 1

\* C17: when clear() has returned, both side indices and the locator are
\* empty, get_best_bid and get_best_ask return false, all three counters are
\* 0, every id can be added again and cancelled like a fresh id, and the book
\* is the new-object book; and in every reachable state each operation has
\* the same observable result (trades, snapshots, return values, resulting
\* book) as on the new-object book holding the same orders, so any sequence
\* of operations after clear() behaves as on a new book.
C17_ClearIsNewBook ==
    /\ op = "clear" =>
          /\ bids_ = <<>> /\ asks_ = <<>> /\ order_lookup_ = <<>> /\ mem = <<>>
          /\ total_orders_added_ = 0
          /\ total_orders_cancelled_ = 0
          /\ total_orders_matched_ = 0
          /\ get_best_bid(Called(Book, "get_best_bid")).ret = "false"
          /\ get_best_ask(Called(Book, "get_best_ask")).ret = "false"
          /\ CanonIsNew
          /\ AddableAndCancellable
    /\ SameAsOnNewBook

\* clear() has returned on a book whose pool had grown, so the pool is not
\* the one a new object has
C17_Witness ==
    /\ op = "clear"
    /\ block_count_ = 2
    /\ Len(free_list_) = 2 * BlockSize

\* ---- the aggressive buy of the walk-through ----
\* orders 1..6 were added, order 2 was cancelled, nothing has traded
S2Pre ==
    /\ total_orders_added_ = 6
    /\ total_orders_cancelled_ = 1
    /\ total_orders_matched_ = 0
    /\ DOMAIN order_lookup_ = {1, 3, 4, 5, 6}
    /\ get_snapshot(Book, 5).out.bids = <<PriceLevel(1000, 50), PriceLevel(990, 75)>>
    /\ get_snapshot(Book, 5).out.asks
         = <<PriceLevel(1010, 60), PriceLevel(1015, 80), PriceLevel(1020, 90)>>

S2Lines ==
    <<[buy_order_id |-> 105, sell_order_id |-> 4, quantity |-> 60, price |-> 1010],
      [buy_order_id |-> 105, sell_order_id |-> 5, quantity |-> 80, price |-> 1015],
      [buy_order_id |-> 105, sell_order_id |-> 6, quantity |-> 60, price |-> 1020]>>

S2Step == S2Pre /\ AddOrderS2(Order(105, TRUE, 1020, 200, 1))

\* C18, as stated: adding Bid(105, 102.0, 200) to the book of orders 1, 3, 4,
\* 5, 6 emits (105, 4, 60, 101.0), (105, 5, 80, 101.5), (105, 6, 60, 102.0),
\* order 105 is fully consumed and the ask side empties: bids =
\* [(100,50),(99,75)], asks = [].
C18_S2AskSideEmpties ==
    [][S2Step =>
         /\ [i \in DOMAIN trades' |-> TradeLine(trades'[i])] = S2Lines
         /\ 105 \notin DOMAIN order_lookup_'
         /\ get_snapshot(Book, 5)'.out.bids = <<PriceLevel(1000, 50), PriceLevel(990, 75)>>
         /\ get_snapshot(Book, 5)'.out.asks = <<>>]_vars

\* C18, amended: the same three trades are emitted and order 105 is fully
\* consumed, but order 6 was filled for 60 of its 90 and keeps resting with
\* 30: bids = [(100,50),(99,75)], asks = [(102,30)].
C18_S2AskSideKeepsRemainder ==
    [][S2Step =>
         /\ [i \in DOMAIN trades' |-> TradeLine(trades'[i])] = S2Lines
         /\ 105 \notin DOMAIN order_lookup_'
         /\ DOMAIN order_lookup_' = {1, 3, 6}
         /\ mem'[order_lookup_'[6].order].quantity = 30
         /\ get_snapshot(Book, 5)'.out.bids = <<PriceLevel(1000, 50), PriceLevel(990, 75)>>
         /\ get_snapshot(Book, 5)'.out.asks = <<PriceLevel(1020, 30)>>]_vars

\* the aggressive buy has just been added to the book of orders 1, 3, 4, 5, 6
C18_Witness ==
    /\ op = "add_order"
    /\ Len(trades) = 3
    /\ trades[1].buy_order_id = 105
    /\ trades[1].aggressor = 105
    /\ total_orders_added_ = 7
    /\ total_orders_cancelled_ = 1
    /\ total_orders_matched_ = 3
    /\ DOMAIN bids_ = {1000, 990}
    /\ bids_[1000].total_quantity = 50

\* ---- the crossing loop ----
\* C19: after every public operation returns, every resting order has
\* remaining quantity strictly greater than 0; an order whose quantity
\* reached 0 in the crossing loop is in no queue and not in the locator.
C19_RestingQuantityPositive ==
    /\ \A s \in QueuedSlots(Book) : mem[s].quantity > 0
    /\ \A id \in DOMAIN order_lookup_ : mem[order_lookup_[id].order].quantity > 0
    /\ \A L \in AllLevels : L.total_quantity > 0
    /\ \A i \in DOMAIN trades :
          /\ trades[i].quantity = trades[i].buy_remaining =>
                /\ trades[i].buy_order_id \notin RestingIds(Book)
                /\ trades[i].buy_order_id \notin DOMAIN order_lookup_
          /\ trades[i].quantity = trades[i].sell_remaining =>
                /\ trades[i].sell_order_id \notin RestingIds(Book)
                /\ trades[i].sell_order_id \notin DOMAIN order_lookup_

\* a call filled one order completely and left its counterparty resting with
\* a remainder
C19_Witness ==
    /\ Len(trades) = 1
    /\ trades[1].quantity = trades[1].sell_remaining
    /\ trades[1].quantity < trades[1].buy_remaining
    /\ trades[1].buy_order_id \in DOMAIN order_lookup_
    /\ mem[order_lookup_[trades[1].buy_order_id].order].quantity
          = trades[1].buy_remaining - trades[1].quantity

\* C20: the crossing loop terminates within as many iterations as there are
\* resting orders at loop entry: every iteration trades a positive quantity
\* that fully fills at least one of the two head orders, which is removed,
\* so the trades of a call together with the orders left in the locator
\* number at most the orders resting at loop entry, and the call returns.
C20_LoopBounded ==
    [][LET entry == Cardinality(DOMAIN order_lookup_)
                      + (IF op' = "add_order" THEN 1 ELSE 0)
       IN /\ Len(trades') <= entry
          /\ Cardinality(DOMAIN order_lookup_') + Len(trades') <= entry
          /\ \A i \in DOMAIN trades' :
                /\ trades'[i].quantity > 0
                /\ \/ trades'[i].quantity = trades'[i].buy_remaining
                   \/ trades'[i].quantity = trades'[i].sell_remaining
          /\ ret' \in {"void", "true", "false"}]_vars

\* one call ran the loop twice, against two different resting orders
C20_Witness ==
    /\ Len(trades) = 2
    /\ trades[1].aggressor = trades[1].buy_order_id
    /\ trades[1].sell_order_id # trades[2].sell_order_id
    /\ trades[1].quantity < trades[1].buy_remaining

\* ---- same-price amend ----
\* the prices of a side, best first
LevelPrices(b, depth) ==
    LET snap == get_snapshot(b, depth).out
    IN [bids |-> [i \in DOMAIN snap.bids |-> snap.bids[i].price],
        asks |-> [i \in DOMAIN snap.asks |-> snap.asks[i].price]]

\* the queues of a side, without the totals
QueuesOf(side) == [p \in DOMAIN side |-> side[p].orders]

\* C21: amend_order on a live order at its current price with any new
\* quantity > 0 emits no trade and leaves total_orders_matched as it was; no
\* order or level is added or removed, best bid, best ask and the order of
\* levels are unchanged; only the order's quantity becomes new_quantity and
\* its level's total changes by new_quantity minus the old quantity.
C21_SamePriceAmendNoTrade ==
    \A id \in DOMAIN order_lookup_, q \in Quantities :
       LET loc == order_lookup_[id]
           old == mem[loc.order]
           b1 == amend_order(Entry("amend_order"), id, old.price, q)
       IN /\ b1.ret = "true"
          /\ b1.trades = <<>>
          /\ b1.total_orders_matched_ = total_orders_matched_
          /\ b1.total_orders_added_ = total_orders_added_
          /\ b1.total_orders_cancelled_ = total_orders_cancelled_
          /\ b1.order_lookup_ = order_lookup_
          /\ QueuesOf(b1.bids_) = QueuesOf(bids_)
          /\ QueuesOf(b1.asks_) = QueuesOf(asks_)
          /\ LevelPrices(b1, MaxPrice) = LevelPrices(Book, MaxPrice)
          /\ get_best_bid(b1).out.price = get_best_bid(Book).out.price
          /\ get_best_ask(b1).out.price = get_best_ask(Book).out.price
          /\ b1.mem = [mem EXCEPT ![loc.order].quantity = q]
          /\ \A p \in DOMAIN bids_ :
                b1.bids_[p].total_quantity
                  = bids_[p].total_quantity
                      + (IF loc.is_bid /\ p = loc.price THEN q - old.quantity ELSE 0)
          /\ \A p \in DOMAIN asks_ :
                b1.asks_[p].total_quantity
                  = asks_[p].total_quantity
                      + (IF ~loc.is_bid /\ p = loc.price THEN q - old.quantity ELSE 0)

\* an in-place amend has returned on a book with both sides populated, the
\* best bid one tick under the best ask
C21_Witness ==
    /\ op = "amend_order"
    /\ ret = "true"
    /\ total_orders_cancelled_ = 0
    /\ total_orders_matched_ = 0
    /\ trades = <<>>
    /\ DOMAIN bids_ = {1}
    /\ DOMAIN asks_ = {2}
    /\ Len(bids_[1].orders) = 2
    /\ bids_[1].total_quantity = 2 * MaxQty

\* ---- counter steps ----
\* the change of the three counters from the current book to book value b
CounterStep(b) ==
    [added |-> b.total_orders_added_ - total_orders_added_,
     cancelled |-> b.total_orders_cancelled_ - total_orders_cancelled_,
     matched |-> b.total_orders_matched_ - total_orders_matched_]

\* C22: apart from clear() no operation decreases a counter;
\* total_orders_added grows by exactly one per add_order and per
\* price-changing amend_order of a live order and by nothing else;
\* total_orders_cancelled grows by exactly one per cancel_order returning
\* true and per price-changing amend_order and by nothing else, in
\* particular not when a fill removes an order.
C22_CountersStepByOne ==
    /\ \A id \in Ids \ DOMAIN order_lookup_, is_buy \in BOOLEAN,
          price \in Prices, qty \in Quantities :
          LET b1 == add_order(Entry("add_order"), Order(id, is_buy, price, qty, 1))
          IN /\ CounterStep(b1).added = 1
             /\ CounterStep(b1).cancelled = 0
             /\ CounterStep(b1).matched = Len(b1.trades)
    /\ \A id \in Ids :
          LET b1 == cancel_order(Entry("cancel_order"), id)
          IN /\ CounterStep(b1).added = 0
             /\ CounterStep(b1).cancelled = (IF b1.ret = "true" THEN 1 ELSE 0)
             /\ CounterStep(b1).matched = 0
             /\ b1.ret = "true" <=> id \in DOMAIN order_lookup_
    /\ \A id \in Ids, new_price \in Prices, new_quantity \in Quantities :
          LET b1 == amend_order(Entry("amend_order"), id, new_price, new_quantity)
              repriced == /\ id \in DOMAIN order_lookup_
                          /\ mem[order_lookup_[id].order].price # new_price
          IN /\ CounterStep(b1).added = (IF repriced THEN 1 ELSE 0)
             /\ CounterStep(b1).cancelled = (IF repriced THEN 1 ELSE 0)
             /\ CounterStep(b1).matched = Len(b1.trades)
    /\ \A depth \in Depths :
          CounterStep(get_snapshot(Entry("get_snapshot"), depth))
             = [added |-> 0, cancelled |-> 0, matched |-> 0]
    /\ CounterStep(get_best_bid(Entry("get_best_bid")))
             = [added |-> 0, cancelled |-> 0, matched |-> 0]
    /\ CounterStep(get_best_ask(Entry("get_best_ask")))
             = [added |-> 0, cancelled |-> 0, matched |-> 0]

\* an add_order has filled a resting order completely after an earlier
\* cancel: one order was cancelled, a different one left through a fill
C22_Witness ==
    /\ op = "add_order"
    /\ Len(trades) = 1
    /\ fully_filled >= 1
    /\ total_orders_added_ = 3
    /\ total_orders_cancelled_ = 1
    /\ total_orders_matched_ = 1

\* ---- conservation of quantity ----
\* the quantity every live order carries
LiveQuantity ==
    [id \in DOMAIN order_lookup_ |-> mem[order_lookup_[id].order].quantity]

\* what order id traded in the trades ts
TradedOf(ts, id) ==
    SeqSum([i \in DOMAIN ts |->
              IF id \in {ts[i].buy_order_id, ts[i].sell_order_id}
              THEN ts[i].quantity ELSE 0])

\* what order id still carries in book value b
FinalOf(b, id) ==
    IF id \in DOMAIN b.order_lookup_
    THEN b.mem[b.order_lookup_[id].order].quantity ELSE 0

\* the crossing loop that produced book value b, entered with the orders and
\* quantities of start: each iteration trades the minimum of the two head
\* remainders, at least 1, between the heads of the two best levels, the
\* remainders shrink by exactly the traded amounts, and so do the level totals
LoopConserves(b, start) ==
    /\ DOMAIN b.order_lookup_ \subseteq DOMAIN start
    /\ \A i \in DOMAIN b.trades :
          LET t == b.trades[i]
              before == SubSeq(b.trades, 1, i - 1)
          IN /\ t.quantity = Min2(t.buy_remaining, t.sell_remaining)
             /\ t.quantity >= 1
             /\ t.buy_order_id # t.sell_order_id
             /\ t.buy_ahead = {} /\ t.sell_ahead = {}
             /\ t.buy_better = {} /\ t.sell_better = {}
             /\ t.buy_remaining = start[t.buy_order_id] - TradedOf(before, t.buy_order_id)
             /\ t.sell_remaining = start[t.sell_order_id] - TradedOf(before, t.sell_order_id)
    /\ \A id \in DOMAIN start :
          /\ FinalOf(b, id) + TradedOf(b.trades, id) = start[id]
          /\ TradedOf(b.trades, id) <= start[id]
    /\ \A p \in DOMAIN b.bids_ :
          b.bids_[p].total_quantity
             = SeqSum([i \in DOMAIN b.bids_[p].orders |-> b.mem[b.bids_[p].orders[i]].quantity])
    /\ \A p \in DOMAIN b.asks_ :
          b.asks_[p].total_quantity
             = SeqSum([i \in DOMAIN b.asks_[p].orders |-> b.mem[b.asks_[p].orders[i]].quantity])
    /\ SeqSum([i \in DOMAIN b.trades |-> b.trades[i].quantity]) * 2
          = SetSum(DOMAIN start, [id \in DOMAIN start |-> TradedOf(b.trades, id)])

\* C23: each iteration of the crossing loop trades exactly the minimum of the
\* two head remainders, at least 1, between the head of the best bid level
\* and the head of the best ask level, and reduces both orders and both level
\* totals by that amount; so for every order what it traded plus what it
\* still carries equals the quantity it was added or last amended with, and
\* the quantity bought equals the quantity sold.
C23_QuantityConserved ==
    /\ \A id \in Ids \ DOMAIN order_lookup_, is_buy \in BOOLEAN,
          price \in Prices, qty \in Quantities :
          LoopConserves(add_order(Entry("add_order"), Order(id, is_buy, price, qty, 1)),
                        MapPut(LiveQuantity, id, qty))
    /\ \A id \in DOMAIN order_lookup_, new_price \in Prices, new_quantity \in Quantities :
          LoopConserves(amend_order(Entry("amend_order"), id, new_price, new_quantity),
                        [LiveQuantity EXCEPT ![id] = new_quantity])
    /\ \A id \in Ids :
          /\ cancel_order(Entry("cancel_order"), id).trades = <<>>
          /\ \A other \in DOMAIN order_lookup_ \ {id} :
                FinalOf(cancel_order(Entry("cancel_order"), id), other)
                   = LiveQuantity[other]

\* one aggressor of quantity 2 was filled in two iterations of 1 each
C23_Witness ==
    /\ Len(trades) = 2
    /\ trades[1].sell_order_id = trades[2].sell_order_id
    /\ trades[1].sell_remaining = 2
    /\ trades[2].sell_remaining = 1
    /\ trades[1].buy_order_id # trades[2].buy_order_id
    /\ trades[1].sell_order_id \notin DOMAIN order_lookup_

\* ---- amend to zero ----
\* C24: amend_order(id, current price, 0) on a live order leaves no
\* zero-quantity order resting: after the call the order is in no queue and
\* not in the locator, and no later operation emits a trade of quantity 0.
C24_AmendZeroRemovesOrder ==
    /\ \A s \in QueuedSlots(Book) : mem[s].quantity > 0
    /\ \A id \in DOMAIN order_lookup_ : mem[order_lookup_[id].order].quantity > 0
    /\ \A i \in DOMAIN trades : trades[i].quantity > 0

\* ---- the order pool ----
\* every record the pool has carved out of its blocks
PoolRecords == 0..(block_count_ * BlockSize - 1)

\* the records handed out and not yet given back
InUse == PoolRecords \ Range(free_list_)

\* the pool accounts for every record exactly once
PoolAccounted ==
    /\ Range(free_list_) \subseteq PoolRecords
    /\ \A i, j \in DOMAIN free_list_ : i # j => free_list_[i] # free_list_[j]
    /\ InUse = QueuedSlots(Book)
    /\ InUse = DOMAIN mem
    /\ Cardinality(InUse) = Cardinality(DOMAIN order_lookup_)
    /\ Cardinality(InUse) = block_count_ * BlockSize - Len(free_list_)
    /\ \A L \in AllLevels : \A i, j \in DOMAIN L.orders :
          i # j => L.orders[i] # L.orders[j]
    /\ free_list_ # <<>> => Head(free_list_) \notin QueuedSlots(Book)

\* block_count_ never decreases; it grows by one, and only in an add_order
\* entered with an empty free list, every record in use
PoolGrowth ==
    /\ block_count_' \in {block_count_, block_count_ + 1}
    /\ block_count_' = block_count_ + 1 <=>
          /\ op' = "add_order"
          /\ free_list_ = <<>>
    /\ free_list_ = <<>> =>
          Cardinality(QueuedSlots(Book)) = block_count_ * BlockSize

\* C25: the order pool neither leaks nor double-issues records: after every
\* public operation the records allocated and not yet deallocated are
\* exactly those of the resting orders, the free list holds every other
\* record once, so allocate() never hands out a record a resting order
\* holds and no record is deallocated twice; block_count never decreases and
\* grows by one only when allocate() finds the free list empty, all
\* block_count * BlockSize records in use.
C25_PoolAccounting ==
    []PoolAccounted /\ [][PoolGrowth]_vars

\* the pool grew to a second block and an order was then released by a fill
C25_Witness ==
    /\ block_count_ = 2
    /\ op = "add_order"
    /\ trades # <<>>
    /\ fully_filled >= 1
    /\ Len(free_list_) >= BlockSize + 1

====
